---- MODULE Spec2Model ----
(***************************************************************************)
(* Model of the track reconciliation engine of Playlist-sync-and-downloader *)
(*   src/list_missing_tracks.py  (batch catalog reconciliation, "Mode B")   *)
(*   src/fuvi_download.py        (best-of-K selection, "Mode A")            *)
(* Python strings are TLA+ strings, handled character by character with     *)
(* Len, SubSeq and \o.  All strings of the model are ASCII, on which        *)
(* unidecode.unidecode is the identity.                                     *)
(***************************************************************************)
EXTENDS Integers, Sequences, FiniteSets, TLC

VARIABLES
    \* find_matches(spotify_tracks, local_tracks): arguments, locals and results
    spotify_tracks,     \* the source catalog, a list of track names
    local_tracks,       \* the target catalog, a list of <<original, normalized>>
    matched, missing,   \* lists of source track names
    matched_locals,     \* the set of claimed target names
    unmatched_local,    \* list of target names, set when the function returns
    found,
    sp_idx, loc_idx,    \* positions of the two for loops (1-based, 0 before the first)
    sp_fields,          \* sp_artists, sp_title, sp_title_normalized, sp_mix_type, sp_artist_norms
    loc_fields,         \* loc_artists, loc_title, loc_title_normalized, loc_mix_type, loc_artist_norms
    best_artist_score, title_score,
    pc,                 \* the line find_matches is at: "outer" (185), "scan" (193),
                        \* "parsed" (202), "scored" (211), "after" (216), "done"; or "idle"
    claims,             \* history: the <<sp_idx, loc_idx>> of every accepted pair
    \* is_mix_type_conflict(mt1, mt2): arguments, position, return value
    mt1, mt2, mix_pc, mix_ret,
    \* search_and_add_track, lines 167-198: the selection among the results
    n_blocks,           \* len(result_blocks)
    n_variants,         \* len(search_variants)
    idx,                \* number of result blocks the loop has taken
    candidate_scores,   \* the scores of the block read last, one per variant
    max_score,
    best_match,         \* 0 for None, else the position of the block in result_blocks
    best_score,         \* in hundredths
    sel_pc,             \* "loop" (170), "done"; or "idle"
    sel_ret,            \* "none", "no match" (return False, 198), "add" (on to line 200)
    reads,              \* history: per block read, its scores, <<>> if reading it raised
    \* the two generate_artist_permutations: argument, positions, return values
    perm_artists,       \* the list of artist names both are called with
    perm_pc,            \* list_missing_tracks.py's: "call", "done"; or "idle"
    perm_ret,
    fuvi_perm_pc,       \* fuvi_download.py's: "call", "done"; or "idle"
    fuvi_perm_ret,
    \* extract_artist_and_title(track_str): argument, position, return value
    ext_track, ext_pc, ext_ret

findVars == <<spotify_tracks, local_tracks, matched, missing, matched_locals,
              unmatched_local, found, sp_idx, loc_idx, sp_fields, loc_fields,
              best_artist_score, title_score, pc, claims>>

mixVars == <<mt1, mt2, mix_pc, mix_ret>>

selVars == <<n_blocks, n_variants, idx, candidate_scores, max_score, best_match,
             best_score, sel_pc, sel_ret, reads>>

permVars == <<perm_artists, perm_pc, perm_ret, fuvi_perm_pc, fuvi_perm_ret>>

extVars == <<ext_track, ext_pc, ext_ret>>

vars == <<findVars, mixVars, selVars, permVars, extVars>>

(***************************************************************************)
(* String helpers (Python str built-ins)                                   *)
(***************************************************************************)
UpperChars == "ABCDEFGHIJKLMNOPQRSTUVWXYZ"
LowerChars == "abcdefghijklmnopqrstuvwxyz"

\* the i-th character of s, as a one-character string
Char(s, i) == SubSeq(s, i, i)

\* str.lower() of each capital letter
LowerOfUpper ==
    [c \in {Char(UpperChars, i) : i \in 1..Len(UpperChars)} |->
        Char(LowerChars, CHOOSE i \in 1..Len(UpperChars) : Char(UpperChars, i) = c)]

\* str.lower() of one character
LowerChar(c) == IF c \in DOMAIN LowerOfUpper THEN LowerOfUpper[c] ELSE c

\* str.lower()
RECURSIVE Lower(_)
Lower(s) == IF s = "" THEN "" ELSE LowerChar(Char(s, 1)) \o Lower(SubSeq(s, 2, Len(s)))

\* sub in s  (substring test)
Contains(s, sub) ==
    \E i \in 1..(Len(s) - Len(sub) + 1) : SubSeq(s, i, i + Len(sub) - 1) = sub

Max(a, b) == IF a >= b THEN a ELSE b

\* the literal lit stands in s at position i (case-sensitive / re.IGNORECASE)
MatchLit(s, i, lit) ==
    i + Len(lit) - 1 <= Len(s) /\ SubSeq(s, i, i + Len(lit) - 1) = lit

MatchLitI(s, i, lit) ==
    i + Len(lit) - 1 <= Len(s) /\ Lower(SubSeq(s, i, i + Len(lit) - 1)) = Lower(lit)

\* regex classes \w and \s on the characters of the model
WordChars == "abcdefghijklmnopqrstuvwxyzABCDEFGHIJKLMNOPQRSTUVWXYZ0123456789_"

IsWord(c) == c # "" /\ Contains(WordChars, c)

IsSpace(c) == c = " "

\* number of \s characters of s from position i on
RECURSIVE SpacesAt(_, _)
SpacesAt(s, i) ==
    IF i <= Len(s) /\ IsSpace(Char(s, i)) THEN 1 + SpacesAt(s, i + 1) ELSE 0

\* number of \w characters of s from position i on
RECURSIVE WordRunAt(_, _)
WordRunAt(s, i) ==
    IF i <= Len(s) /\ IsWord(Char(s, i)) THEN 1 + WordRunAt(s, i + 1) ELSE 0

\* str.strip()
RECURSIVE LStrip(_)
LStrip(s) == IF s # "" /\ IsSpace(Char(s, 1)) THEN LStrip(SubSeq(s, 2, Len(s))) ELSE s

RECURSIVE RStrip(_)
RStrip(s) ==
    IF s # "" /\ IsSpace(Char(s, Len(s))) THEN RStrip(SubSeq(s, 1, Len(s) - 1)) ELSE s

Strip(s) == LStrip(RStrip(s))

\* position of the first occurrence of sub in s from position i on, 0 if none (str.find)
RECURSIVE FindFrom(_, _, _)
FindFrom(s, sub, i) ==
    IF i + Len(sub) - 1 > Len(s) THEN 0
    ELSE IF MatchLit(s, i, sub) THEN i
    ELSE FindFrom(s, sub, i + 1)

\* position of the last occurrence of the character c in s, 0 if none
RECURSIVE LastIndexOf(_, _, _)
LastIndexOf(s, c, i) ==
    IF i = 0 THEN 0 ELSE IF Char(s, i) = c THEN i ELSE LastIndexOf(s, c, i - 1)

(***************************************************************************)
(* re.sub and re.split.  lens[i] is the length of the pattern's match that  *)
(* starts at position i of s, 0 when it does not match there; matches are   *)
(* taken leftmost first and do not overlap.  No pattern of the program      *)
(* matches the empty string.                                                *)
(***************************************************************************)
RECURSIVE ReSubFrom(_, _, _, _)
ReSubFrom(s, lens, repl, i) ==
    IF i > Len(s) THEN ""
    ELSE IF lens[i] > 0 THEN repl \o ReSubFrom(s, lens, repl, i + lens[i])
    ELSE Char(s, i) \o ReSubFrom(s, lens, repl, i + 1)

ReSub(s, lens, repl) == ReSubFrom(s, lens, repl, 1)

\* parts: the list so far, whose last element is the part being read
RECURSIVE ReSplitFrom(_, _, _, _)
ReSplitFrom(s, lens, i, parts) ==
    IF i > Len(s) THEN parts
    ELSE IF lens[i] > 0 THEN ReSplitFrom(s, lens, i + lens[i], Append(parts, ""))
    ELSE ReSplitFrom(s, lens, i + 1,
                     [parts EXCEPT ![Len(parts)] = parts[Len(parts)] \o Char(s, i)])

ReSplit(s, lens) == ReSplitFrom(s, lens, 1, <<"">>)

\* length of the first literal of the list alts that stands at position i, 0 if none
\* (an alternation lit1|lit2|... of literals)
RECURSIVE AltLenAt(_, _, _, _)
AltLenAt(s, i, alts, ignorecase) ==
    IF alts = <<>> THEN 0
    ELSE IF (IF ignorecase THEN MatchLitI(s, i, Head(alts)) ELSE MatchLit(s, i, Head(alts)))
         THEN Len(Head(alts))
    ELSE AltLenAt(s, i, Tail(alts), ignorecase)

\* [f(x) for x in seq if p(x)] for the two list comprehensions on stripped names
RECURSIVE StripAll(_)
StripAll(seq) == IF seq = <<>> THEN <<>> ELSE <<Strip(Head(seq))>> \o StripAll(Tail(seq))

RECURSIVE DropEmpty(_)
DropEmpty(seq) ==
    IF seq = <<>> THEN <<>>
    ELSE (IF Head(seq) = "" THEN <<>> ELSE <<Head(seq)>>) \o DropEmpty(Tail(seq))

(***************************************************************************)
(* is_mix_type_conflict                                                    *)
(***************************************************************************)
\* Python's None, a possible value of either argument (mt or ''); TLC compares
\* strings only with strings, so None is a token no qualifier string equals
None == "<None>"

NEUTRAL ==
    { "original mix", "extended mix", "club mix", "club mix edit", "radio edit", "radio mix",
      "edit", "version", "mix", "extended", "original", "extended club mix" }

\* (mt or '') without .lower()
OrEmpty(mt) == IF mt = None THEN "" ELSE mt

\* (mt or '').lower()
OrEmptyLower(mt) == IF mt = None THEN "" ELSE Lower(mt)

is_remix_type(mt) ==
    IF mt = "" THEN FALSE
    ELSE IF Contains(mt, "remix") THEN TRUE
    ELSE IF (Contains(mt, "edit") \/ Contains(mt, "mix") \/ Contains(mt, "version"))
            /\ mt \notin NEUTRAL THEN TRUE
    ELSE FALSE

\* the last line alone
is_mix_type_conflict_differs(a, b) == OrEmptyLower(a) # OrEmptyLower(b)

\* line 120 without its second half
is_mix_type_conflict_blank_second(a, b) ==
    LET m1 == OrEmptyLower(a)
        m2 == OrEmptyLower(b)
    IN  IF m1 = "" /\ m2 = "" THEN FALSE
        ELSE IF m1 \in NEUTRAL /\ m2 \in NEUTRAL THEN FALSE
        ELSE IF m1 \in NEUTRAL /\ m2 = "" THEN FALSE
        ELSE IF (is_remix_type(m1) /\ (m2 \in NEUTRAL \/ m2 = ""))
                \/ (is_remix_type(m2) /\ (m1 \in NEUTRAL \/ m1 = "")) THEN TRUE
        ELSE IF is_remix_type(m1) /\ is_remix_type(m2) THEN FALSE
        ELSE m1 # m2

\* line 120 without its two tests of NEUTRAL
is_mix_type_conflict_blank_matches_all(a, b) ==
    LET m1 == OrEmptyLower(a)
        m2 == OrEmptyLower(b)
    IN  IF m1 = "" /\ m2 = "" THEN FALSE
        ELSE IF m1 \in NEUTRAL /\ m2 \in NEUTRAL THEN FALSE
        ELSE IF m2 = "" \/ m1 = "" THEN FALSE
        ELSE IF (is_remix_type(m1) /\ (m2 \in NEUTRAL \/ m2 = ""))
                \/ (is_remix_type(m2) /\ (m1 \in NEUTRAL \/ m1 = "")) THEN TRUE
        ELSE IF is_remix_type(m1) /\ is_remix_type(m2) THEN FALSE
        ELSE m1 # m2

is_mix_type_conflict(a, b) ==
    LET m1 == OrEmptyLower(a)
        m2 == OrEmptyLower(b)
    IN  IF m1 = "" /\ m2 = "" THEN FALSE
        ELSE IF m1 \in NEUTRAL /\ m2 \in NEUTRAL THEN FALSE
        ELSE IF (m1 \in NEUTRAL /\ m2 = "") \/ (m2 \in NEUTRAL /\ m1 = "") THEN FALSE
        ELSE IF (is_remix_type(m1) /\ (m2 \in NEUTRAL \/ m2 = ""))
                \/ (is_remix_type(m2) /\ (m1 \in NEUTRAL \/ m1 = "")) THEN TRUE
        ELSE IF is_remix_type(m1) /\ is_remix_type(m2) THEN FALSE
        ELSE m1 # m2

(***************************************************************************)
(* Artist and title helpers of list_missing_tracks.py                      *)
(***************************************************************************)
COUNTRY_TAGS == <<"(ofc)", "(be)", "(uk)", "(us)", "(fr)", "(it)", "(ca)", "(au)", "(de)">>

\* re.sub(r'\((ofc|be|uk|us|fr|it|ca|au|de)\)', '', s, flags=re.IGNORECASE)
StripCountryTags(s) ==
    ReSub(s, [i \in 1..Len(s) |-> AltLenAt(s, i, COUNTRY_TAGS, TRUE)], "")

sanitize_local_artist(artist_name) == Strip(StripCountryTags(artist_name))

FEAT_WORDS == {"feat", "ft", "featuring"}

\* re.sub(r'(?i)\b(feat|ft|featuring)\b', '', text): a maximal run of \w
\* characters that is one of the three words
FeatWordLenAt(s, i) ==
    LET n == WordRunAt(s, i)
    IN  IF n > 0 /\ (i = 1 \/ ~IsWord(Char(s, i - 1)))
           /\ Lower(SubSeq(s, i, i + n - 1)) \in FEAT_WORDS
        THEN n ELSE 0

\* text.replace('&', 'and')
RECURSIVE ReplaceAmp(_)
ReplaceAmp(s) ==
    IF s = "" THEN ""
    ELSE (IF Char(s, 1) = "&" THEN "and" ELSE Char(s, 1)) \o ReplaceAmp(SubSeq(s, 2, Len(s)))

\* re.sub(r'[^\w\s]', '', text)
RECURSIVE KeepWordAndSpace(_)
KeepWordAndSpace(s) ==
    IF s = "" THEN ""
    ELSE (IF IsWord(Char(s, 1)) \/ IsSpace(Char(s, 1)) THEN Char(s, 1) ELSE "")
             \o KeepWordAndSpace(SubSeq(s, 2, Len(s)))

\* re.sub(r'\s+', ' ', text) with atLeast = 1, re.sub(r'\s{2,}', ' ', text) with 2
CollapseSpaces(s, atLeast) ==
    ReSub(s, [i \in 1..Len(s) |->
                  IF SpacesAt(s, i) >= atLeast THEN SpacesAt(s, i) ELSE 0], " ")

\* unidecode.unidecode leaves the ASCII strings of the model as they are
normalize_text(text) ==
    LET t1 == ReSub(text, [i \in 1..Len(text) |-> FeatWordLenAt(text, i)], "")
        t2 == ReplaceAmp(t1)
        t3 == StripCountryTags(t2)
        t4 == KeepWordAndSpace(t3)
    IN  Strip(Lower(CollapseSpaces(t4, 1)))

BASIC_DESCRIPTORS ==
    <<"(Original Mix)", "(Extended Mix)", "(Club Mix)", "(Dub Mix)", "(Version)", "(Edit)">>

\* rf'(?i)\s*(feat\.?|featuring)\s+{re.escape(artist)}' at position i
FeatArtistLenAt(s, i, artist) ==
    LET p == i + SpacesAt(s, i)
        \* after "feat", "feat." or "featuring" ending before position q
        Rest(q) == IF SpacesAt(s, q) >= 1 /\ MatchLitI(s, q + SpacesAt(s, q), artist)
                   THEN q + SpacesAt(s, q) + Len(artist) - i
                   ELSE 0
        q1 == IF MatchLit(s, p + 4, ".") THEN p + 5 ELSE p + 4
    IN  IF MatchLitI(s, p, "feat") /\ Rest(q1) > 0 THEN Rest(q1)
        ELSE IF MatchLitI(s, p, "featuring") THEN Rest(p + 9)
        ELSE 0

\* for artist in artist_list: title = re.sub(pattern, '', title)
RECURSIVE StripFeatOf(_, _)
StripFeatOf(title, artist_list) ==
    IF artist_list = <<>> THEN title
    ELSE StripFeatOf(
             ReSub(title, [i \in 1..Len(title) |-> FeatArtistLenAt(title, i, Head(artist_list))], ""),
             Tail(artist_list))

simplify_title(title, artist_list) ==
    LET t1 == Strip(ReSub(title, [i \in 1..Len(title) |-> AltLenAt(title, i, BASIC_DESCRIPTORS, TRUE)], ""))
        t2 == StripFeatOf(t1, artist_list)
    IN  normalize_text(CollapseSpaces(t2, 2))

\* r',|\s&\s|\sand\s|\sft\.?\s|\sfeat\.?\s|\sfeaturing\s' with re.IGNORECASE
ARTIST_SEPARATORS == <<",", " & ", " and ", " ft ", " ft. ", " feat ", " feat. ", " featuring ">>

\* r',|&|and', case-sensitive
FEAT_SEPARATORS == <<",", "&", "and">>

\* r'\(feat\.? ([^)]+)\)' with re.IGNORECASE at position i: the length of the
\* match, 0 if none
FeatClauseLenAt(s, i) ==
    LET q == IF MatchLit(s, i + 5, ".") THEN i + 6 ELSE i + 5   \* where the space stands
        close == FindFrom(s, ")", q + 1)
    IN  IF MatchLitI(s, i, "(feat") /\ MatchLit(s, q, " ") /\ close > q + 1
        THEN close - i + 1 ELSE 0

\* m.group(1) of that match
FeatClauseGroup(s, i) ==
    LET q == IF MatchLit(s, i + 5, ".") THEN i + 6 ELSE i + 5
    IN  SubSeq(s, q + 1, i + FeatClauseLenAt(s, i) - 2)

\* [a for a in feat_artists if a not in artists]
RECURSIVE NotAmong(_, _)
NotAmong(feat_artists, artists) ==
    IF feat_artists = <<>> THEN <<>>
    ELSE (IF \E k \in 1..Len(artists) : artists[k] = Head(feat_artists)
          THEN <<>> ELSE <<Head(feat_artists)>>) \o NotAmong(Tail(feat_artists), artists)

extract_artist_and_title(track_str) ==
    LET sep == FindFrom(track_str, " - ", 1)
        artist_part == SubSeq(track_str, 1, sep - 1)
        title_part == SubSeq(track_str, sep + 3, Len(track_str))
        artist_raw_parts ==
            ReSplit(artist_part,
                    [i \in 1..Len(artist_part) |-> AltLenAt(artist_part, i, ARTIST_SEPARATORS, TRUE)])
        artists == DropEmpty(StripAll(artist_raw_parts))
        lens == [i \in 1..Len(title_part) |-> FeatClauseLenAt(title_part, i)]
        hits == {i \in 1..Len(title_part) : lens[i] > 0}
        m == CHOOSE i \in hits : \A k \in hits : i <= k
        group == FeatClauseGroup(title_part, m)
        feat_artists ==
            StripAll(ReSplit(group, [i \in 1..Len(group) |-> AltLenAt(group, i, FEAT_SEPARATORS, FALSE)]))
    IN  IF sep = 0 THEN [artists |-> <<>>, title |-> Strip(track_str)]
        ELSE IF hits = {} THEN [artists |-> artists, title |-> Strip(title_part)]
        ELSE [artists |-> artists \o NotAmong(feat_artists, artists),
              title |-> Strip(Strip(ReSub(title_part, lens, "")))]

MIX_WORDS == <<"remix", "mix", "edit", "version">>

\* r'\(([^)]+)\)$': the parenthetical that ends the title, '' if none
TrailingParenthetical(title) ==
    LET n == Len(title)
        \* the last ")" before the final one, 0 if none
        prevClose == LastIndexOf(title, ")", n - 1)
        open == FindFrom(title, "(", prevClose + 1)
    IN  IF n > 0 /\ Char(title, n) = ")" /\ open > 0 /\ open < n - 1
        THEN SubSeq(title, open + 1, n - 1) ELSE ""

\* r'-\s*([^-]+(?:remix|mix|edit|version))$' with re.I: what follows the last
\* hyphen, when it ends in one of the words and is longer than that word
TrailingHyphenMix(title) ==
    LET h == LastIndexOf(title, "-", Len(title))
        rest == SubSeq(title, h + 1, Len(title))
    IN  IF h > 0 /\ \E k \in 1..Len(MIX_WORDS) :
                        /\ Len(rest) > Len(MIX_WORDS[k])
                        /\ MatchLitI(rest, Len(rest) - Len(MIX_WORDS[k]) + 1, MIX_WORDS[k])
        THEN rest ELSE ""

extract_mix_type(title) ==
    LET mix == Lower(Strip(TrailingParenthetical(title)))
    IN  IF TrailingParenthetical(title) # ""
           /\ \E k \in 1..Len(MIX_WORDS) : Contains(mix, MIX_WORDS[k])
        THEN mix
        ELSE Lower(Strip(TrailingHyphenMix(title)))

\* r'\((?!.*remix|edit|mix|version).*?\)' with re.I at position i
NonMixParenLenAt(s, i) ==
    LET rest == SubSeq(s, i + 1, Len(s))
        close == FindFrom(s, ")", i + 1)
    IN  IF /\ MatchLit(s, i, "(")
           /\ ~Contains(Lower(rest), "remix")
           /\ ~MatchLitI(rest, 1, "edit")
           /\ ~MatchLitI(rest, 1, "mix")
           /\ ~MatchLitI(rest, 1, "version")
           /\ close > 0
        THEN close - i + 1 ELSE 0

\* r'\s*-\s*((?!remix|edit|mix|version)[^-\n]+)$' with re.I: the title without
\* its last hyphen clause, when the pattern matches
StripHyphenSubtitle(t) ==
    LET h == LastIndexOf(t, "-", Len(t))
        rest == SubSeq(t, h + 1, Len(t))
    IN  IF h > 0 /\ rest # ""
           /\ (IsSpace(Char(rest, 1))
               \/ \A k \in 1..Len(MIX_WORDS) : ~MatchLitI(rest, 1, MIX_WORDS[k]))
        THEN RStrip(SubSeq(t, 1, h - 1)) ELSE t

strip_nonmix_subtitles(title) ==
    LET t == ReSub(title, [i \in 1..Len(title) |-> NonMixParenLenAt(title, i)], "")
    IN  Strip(StripHyphenSubtitle(t))

\* re.sub(r'[_\.]', ' ', name).strip()
RECURSIVE UnderscoresAndDotsToSpaces(_)
UnderscoresAndDotsToSpaces(s) ==
    IF s = "" THEN ""
    ELSE (IF Char(s, 1) \in {"_", "."} THEN " " ELSE Char(s, 1))
             \o UnderscoresAndDotsToSpaces(SubSeq(s, 2, Len(s)))

clean_filename(name) == Strip(UnderscoresAndDotsToSpaces(name))

\* ", ".join(p)
RECURSIVE JoinComma(_)
JoinComma(p) ==
    IF p = <<>> THEN ""
    ELSE IF Len(p) = 1 THEN p[1]
    ELSE p[1] \o ", " \o JoinComma(Tail(p))

\* itertools.permutations(artists): the orderings of the positions of the list
Orderings(artists) ==
    LET n == Len(artists)
        orders == {f \in [1..n -> 1..n] : \A a, b \in 1..n : a # b => f[a] # f[b]}
    IN  {[k \in 1..n |-> artists[f[k]]] : f \in orders}

\* the list of the distinct joined orderings, as their set: its order is that of
\* a Python set, and its callers only take a maximum over it
generate_artist_permutations(artists) ==
    IF Len(artists) <= 1 THEN {JoinComma(artists)}
    ELSE {JoinComma(p) : p \in Orderings(artists)}

(***************************************************************************)
(* rapidfuzz.fuzz.partial_ratio, called at list_missing_tracks.py:207,210.  *)
(* ratio(a, b) is 200 * LCS(a, b) / (len(a) + len(b)); partial_ratio is the *)
(* best ratio of the shorter string against the windows of the longer one.  *)
(* Scores are kept as whole percents rounded down: the threshold is a whole *)
(* number, so score >= threshold is decided as on the exact value.          *)
(***************************************************************************)
\* one row of the longest-common-subsequence table: cur[j + 1] is the LCS of
\* the rows read so far with the first j characters of b
RECURSIVE LcsCells(_, _, _, _, _)
LcsCells(x, b, prev, j, cur) ==
    IF j > Len(b) THEN cur
    ELSE LET next == Append(cur, IF x = Char(b, j) THEN prev[j] + 1
                                 ELSE Max(prev[j + 1], cur[j]))
         \* the test makes TLC compute the cell before it goes on to the next
         IN  IF Len(next) > 0 THEN LcsCells(x, b, prev, j + 1, next) ELSE next

RECURSIVE LcsRows(_, _, _, _)
LcsRows(a, b, i, prev) ==
    IF i > Len(a) THEN prev[Len(b) + 1]
    ELSE LET row == LcsCells(Char(a, i), b, prev, 1, <<0>>)
         \* the test makes TLC compute the row before it goes on to the next
         IN  IF Len(row) > 0 THEN LcsRows(a, b, i + 1, row) ELSE 0

LCS(a, b) == LcsRows(a, b, 1, [k \in 1..(Len(b) + 1) |-> 0])

ratio(a, b) ==
    IF Len(a) + Len(b) = 0 THEN 100 ELSE (200 * LCS(a, b)) \div (Len(a) + Len(b))

\* the windows <<first, last>> of s2 that s1 is compared with (Len(s1) <= Len(s2)):
\* prefixes shorter than s1, windows as long as s1, and suffixes; a window whose
\* border character does not occur in s1 is skipped
Windows(s1, s2) ==
    LET len1 == Len(s1)
        len2 == Len(s2)
    IN  IF len1 = 0 THEN {}      \* no character occurs in the empty s1
        ELSE {<<1, i>> : i \in {k \in 1..(len1 - 1) : Contains(s1, Char(s2, k))}}
             \cup {<<i + 1, i + len1>> :
                       i \in {k \in 0..(len2 - len1 - 1) : Contains(s1, Char(s2, k + len1))}}
             \cup {<<i + 1, len2>> :
                       i \in {k \in (len2 - len1)..(len2 - 1) : Contains(s1, Char(s2, k + 1))}}

SetMax(S) == IF S = {} THEN 0 ELSE CHOOSE x \in S : \A y \in S : y <= x

partial_ratio_impl(s1, s2) ==
    SetMax({ratio(s1, SubSeq(s2, w[1], w[2])) : w \in Windows(s1, s2)})

partial_ratio(s1, s2) ==
    IF s1 = "" /\ s2 = "" THEN 100
    ELSE LET shorter == IF Len(s1) <= Len(s2) THEN s1 ELSE s2
             longer == IF Len(s1) <= Len(s2) THEN s2 ELSE s1
             res == partial_ratio_impl(shorter, longer)
         IN  IF res # 100 /\ Len(s1) = Len(s2)
             THEN Max(res, partial_ratio_impl(longer, shorter))
             ELSE res

(***************************************************************************)
(* Qualifier inputs: every phrase of at most MaxQualWords words over       *)
(* QualWords, joined by single spaces, the NEUTRAL list, some qualifiers   *)
(* in other letter cases, and None.                                        *)
(***************************************************************************)
MaxQualWords == 2

QualWords == {"original", "mix", "Remix", "edit", "version", "live"}

RECURSIVE Phrases(_)
Phrases(n) ==
    IF n = 0 THEN {""}
    ELSE LET shorter == Phrases(n - 1)
         IN  shorter \cup QualWords
                 \cup {p \o " " \o w : p \in shorter \ {""}, w \in QualWords}

CasedQualifiers == {"Live", "Original Mix", "Radio Edit", "acme remix", "Acme Remix", "dub"}

Qualifiers == Phrases(MaxQualWords) \cup NEUTRAL \cup CasedQualifiers \cup {None}

MixInit ==
    /\ mt1 \in Qualifiers
    /\ mt2 \in Qualifiers
    /\ mix_pc = "call"
    /\ mix_ret = FALSE

MixIdle ==
    /\ mt1 = ""
    /\ mt2 = ""
    /\ mix_pc = "idle"
    /\ mix_ret = FALSE

MixCall ==
    /\ mix_pc = "call"
    /\ mix_ret' = is_mix_type_conflict(mt1, mt2)
    /\ mix_pc' = "done"
    /\ UNCHANGED <<mt1, mt2>>

(***************************************************************************)
(* The catalogs of find_matches.  main() passes the playlist as             *)
(* fetch_spotify_playlist_tracks returns it, names written by               *)
(* format_spotify_track and sorted by str.lower, and the folder as          *)
(* get_local_track_names returns it, in the order of os.walk.  A playlist   *)
(* may hold a track twice, and a folder two files of the same stem.         *)
(***************************************************************************)
MaxSource == 2
MaxLocal == 3

SpotifyNames ==
    { "Artist - Track", "Artist - Track (Acme Remix)", "DJ B, DJ A - Song",
      "Neon - Midnight City" }

LocalStems ==
    { "Artist - Track", "Artist - Track (Acme Remix)", "Artist - Song",
      "DJ A, DJ B - Song (Original Mix)", "Neon - Midnight Cito", "Neon - Midnight City",
      "Other_-_Track", "Mixtape 01" }

\* the characters of the model in the order of their code points
CodePoints == " &(),-.0123456789ABCDEFGHIJKLMNOPQRSTUVWXYZ_abcdefghijklmnopqrstuvwxyz"

CodePoint(c) == CHOOSE i \in 1..Len(CodePoints) : Char(CodePoints, i) = c

\* a <= b for Python strings
RECURSIVE StrLeq(_, _)
StrLeq(a, b) ==
    IF a = "" THEN TRUE
    ELSE IF b = "" THEN FALSE
    ELSE IF Char(a, 1) = Char(b, 1) THEN StrLeq(SubSeq(a, 2, Len(a)), SubSeq(b, 2, Len(b)))
    ELSE CodePoint(Char(a, 1)) < CodePoint(Char(b, 1))

SeqsUpTo(S, n) == UNION {[1..k -> S] : k \in 0..n}

\* the lists sorted(tracks, key=str.lower) can return
SortedByLower(tracks) ==
    \A i, j \in 1..Len(tracks) : i < j => StrLeq(Lower(tracks[i]), Lower(tracks[j]))

\* tracks.append((formatted, normalize_text(formatted))), formatted = clean_filename(name)
get_local_track(name) == <<clean_filename(name), normalize_text(clean_filename(name))>>

SpotifyCatalogs == {tracks \in SeqsUpTo(SpotifyNames, MaxSource) : SortedByLower(tracks)}

LocalEntries == {get_local_track(name) : name \in LocalStems}

LocalCatalogs == SeqsUpTo(LocalEntries, MaxLocal)

(***************************************************************************)
(* find_matches                                                            *)
(***************************************************************************)
threshold == 90

\* what find_matches derives from a track name (lines 186-191 and 196-201)
track_fields(track) ==
    LET parsed == extract_artist_and_title(track)
        artists == parsed.artists
        title == parsed.title
        title_for_match == strip_nonmix_subtitles(title)
        artist_perms ==
            generate_artist_permutations([k \in 1..Len(artists) |-> sanitize_local_artist(artists[k])])
    IN  [ artists |-> artists,
          title |-> title,
          title_normalized |-> simplify_title(title_for_match, artists),
          mix_type |-> extract_mix_type(title),
          artist_norms |-> {normalize_text(perm) : perm \in artist_perms} ]

\* the fields of every track name of the model, computed once
AllNames == SpotifyNames \cup {e[1] : e \in LocalEntries}

Fields == [track \in AllNames |-> track_fields(track)]

\* the scores of every pair of keys find_matches compares, computed once
ArtistKeys == UNION {Fields[t].artist_norms : t \in AllNames}

TitleKeys == {Fields[t].title_normalized : t \in AllNames}

ArtistScores == [a \in ArtistKeys |-> [b \in ArtistKeys |-> partial_ratio(a, b)]]

TitleScores == [a \in TitleKeys |-> [b \in TitleKeys |-> partial_ratio(a, b)]]

\* is_mix_type_conflict on every pair of mix types find_matches compares, computed once
MixTypes == {Fields[t].mix_type : t \in AllNames}

Conflicts == [a \in MixTypes |-> [b \in MixTypes |-> is_mix_type_conflict(a, b)]]

\* lines 204-209: the best score over the pairs of artist orderings, from 0
best_score_of(sp_artist_norms, loc_artist_norms) ==
    SetMax({0} \cup {ArtistScores[sp_norm][loc_norm] :
                        sp_norm \in sp_artist_norms, loc_norm \in loc_artist_norms})

\* a test of line 194 that never finds a name claimed
is_claimed_never(original, claimed) == FALSE

\* line 194
is_claimed(original, claimed) == original \in claimed

\* a test of line 211 that lets one score stand for the other
scores_pass_either(artist_score, score_of_title) ==
    artist_score >= threshold \/ score_of_title >= threshold

\* line 211
scores_pass(artist_score, score_of_title) ==
    artist_score >= threshold /\ score_of_title >= threshold

\* the locals before their first assignment
NoFields ==
    [artists |-> <<>>, title |-> "", title_normalized |-> "", mix_type |-> "", artist_norms |-> {}]

sp_track == spotify_tracks[sp_idx]
local_original == local_tracks[loc_idx][1]

FindInit ==
    /\ spotify_tracks \in SpotifyCatalogs
    /\ local_tracks \in LocalCatalogs
    /\ matched = <<>>
    /\ missing = <<>>
    /\ matched_locals = {}
    /\ unmatched_local = <<>>
    /\ found = FALSE
    /\ sp_idx = 0
    /\ loc_idx = 0
    /\ sp_fields = NoFields
    /\ loc_fields = NoFields
    /\ best_artist_score = 0
    /\ title_score = 0
    /\ pc = "outer"
    /\ claims = <<>>

FindIdle ==
    /\ spotify_tracks = <<>>
    /\ local_tracks = <<>>
    /\ matched = <<>>
    /\ missing = <<>>
    /\ matched_locals = {}
    /\ unmatched_local = <<>>
    /\ found = FALSE
    /\ sp_idx = 0
    /\ loc_idx = 0
    /\ sp_fields = NoFields
    /\ loc_fields = NoFields
    /\ best_artist_score = 0
    /\ title_score = 0
    /\ pc = "idle"
    /\ claims = <<>>

\* lines 185-193: the next source entry is parsed, found = False, the scan starts
NextSource ==
    /\ pc = "outer"
    /\ sp_idx < Len(spotify_tracks)
    /\ sp_idx' = sp_idx + 1
    /\ sp_fields' = Fields[spotify_tracks[sp_idx + 1]]
    /\ found' = FALSE
    /\ loc_idx' = 1
    /\ pc' = "scan"
    /\ UNCHANGED <<spotify_tracks, local_tracks, matched, missing, matched_locals,
                   unmatched_local, loc_fields, best_artist_score, title_score, claims>>

\* lines 194-195: a claimed name is skipped
SkipClaimed ==
    /\ pc = "scan"
    /\ loc_idx <= Len(local_tracks)
    /\ is_claimed(local_original, matched_locals)
    /\ loc_idx' = loc_idx + 1
    /\ UNCHANGED <<spotify_tracks, local_tracks, matched, missing, matched_locals,
                   unmatched_local, found, sp_idx, sp_fields, loc_fields,
                   best_artist_score, title_score, pc, claims>>

\* lines 196-201: the target entry is parsed
ParseLocal ==
    /\ pc = "scan"
    /\ loc_idx <= Len(local_tracks)
    /\ ~is_claimed(local_original, matched_locals)
    /\ loc_fields' = Fields[local_original]
    /\ pc' = "parsed"
    /\ UNCHANGED <<spotify_tracks, local_tracks, matched, missing, matched_locals,
                   unmatched_local, found, sp_idx, loc_idx, sp_fields,
                   best_artist_score, title_score, claims>>

\* lines 202-203: a mix-type conflict rejects the pair
RejectConflict ==
    /\ pc = "parsed"
    /\ Conflicts[sp_fields.mix_type][loc_fields.mix_type]
    /\ loc_idx' = loc_idx + 1
    /\ pc' = "scan"
    /\ UNCHANGED <<spotify_tracks, local_tracks, matched, missing, matched_locals,
                   unmatched_local, found, sp_idx, sp_fields, loc_fields,
                   best_artist_score, title_score, claims>>

\* lines 204-210: the two scores
Score ==
    /\ pc = "parsed"
    /\ ~Conflicts[sp_fields.mix_type][loc_fields.mix_type]
    /\ best_artist_score' = best_score_of(sp_fields.artist_norms, loc_fields.artist_norms)
    /\ title_score' = TitleScores[sp_fields.title_normalized][loc_fields.title_normalized]
    /\ pc' = "scored"
    /\ UNCHANGED <<spotify_tracks, local_tracks, matched, missing, matched_locals,
                   unmatched_local, found, sp_idx, loc_idx, sp_fields, loc_fields, claims>>

\* line 211, condition false: on to the next target entry
RejectScores ==
    /\ pc = "scored"
    /\ ~scores_pass(best_artist_score, title_score)
    /\ loc_idx' = loc_idx + 1
    /\ pc' = "scan"
    /\ UNCHANGED <<spotify_tracks, local_tracks, matched, missing, matched_locals,
                   unmatched_local, found, sp_idx, sp_fields, loc_fields,
                   best_artist_score, title_score, claims>>

\* lines 211-215: the pair is accepted, the name claimed, and the scan ends
Accept ==
    /\ pc = "scored"
    /\ scores_pass(best_artist_score, title_score)
    /\ matched' = Append(matched, sp_track)
    /\ matched_locals' = matched_locals \cup {local_original}
    /\ found' = TRUE
    /\ claims' = Append(claims, <<sp_idx, loc_idx>>)
    /\ pc' = "after"
    /\ UNCHANGED <<spotify_tracks, local_tracks, missing, unmatched_local, sp_idx, loc_idx,
                   sp_fields, loc_fields, best_artist_score, title_score>>

\* line 193: the target catalog is exhausted
ScanEnd ==
    /\ pc = "scan"
    /\ loc_idx > Len(local_tracks)
    /\ pc' = "after"
    /\ UNCHANGED <<spotify_tracks, local_tracks, matched, missing, matched_locals,
                   unmatched_local, found, sp_idx, loc_idx, sp_fields, loc_fields,
                   best_artist_score, title_score, claims>>

\* lines 216-217 without the test of found
AfterScanAlwaysMissing ==
    /\ pc = "after"
    /\ missing' = Append(missing, sp_track)
    /\ pc' = "outer"
    /\ UNCHANGED <<spotify_tracks, local_tracks, matched, matched_locals,
                   unmatched_local, found, sp_idx, loc_idx, sp_fields, loc_fields,
                   best_artist_score, title_score, claims>>

\* lines 216-217
AfterScan ==
    /\ pc = "after"
    /\ missing' = IF ~found THEN Append(missing, sp_track) ELSE missing
    /\ pc' = "outer"
    /\ UNCHANGED <<spotify_tracks, local_tracks, matched, matched_locals,
                   unmatched_local, found, sp_idx, loc_idx, sp_fields, loc_fields,
                   best_artist_score, title_score, claims>>

\* [original for original, _ in local_tracks if original not in matched_locals]
RECURSIVE NotClaimed(_, _)
NotClaimed(locals, claimed) ==
    IF locals = <<>> THEN <<>>
    ELSE (IF Head(locals)[1] \notin claimed THEN <<Head(locals)[1]>> ELSE <<>>)
             \o NotClaimed(Tail(locals), claimed)

\* lines 218-219
Return ==
    /\ pc = "outer"
    /\ sp_idx = Len(spotify_tracks)
    /\ unmatched_local' = NotClaimed(local_tracks, matched_locals)
    /\ pc' = "done"
    /\ UNCHANGED <<spotify_tracks, local_tracks, matched, missing, matched_locals,
                   found, sp_idx, loc_idx, sp_fields, loc_fields,
                   best_artist_score, title_score, claims>>

(***************************************************************************)
(* search_and_add_track of fuvi_download.py, lines 167-198: the best of the *)
(* first results.  A score is SequenceMatcher(None, variant,                *)
(* normalized_result).ratio() of difflib on the text of the page, an input  *)
(* of the model, kept in hundredths.                                        *)
(***************************************************************************)
MaxBlocks == 4
MaxVariants == 2

\* 0.85, in hundredths
CONFIDENCE_THRESHOLD == 85

\* result_blocks[:3]
WINDOW == 3

ScoreValues == {0, 84, 85, 100}

Min(a, b) == IF a <= b THEN a ELSE b

\* line 189 with >= : the block seen last wins a tie
beats_or_ties(score, best) == score >= best

\* line 189
beats(score, best) == score > best

\* line 196, second half
too_low(score) == score < CONFIDENCE_THRESHOLD

\* max(candidate_scores, key=lambda x: x[1])[1]
MaxOf(scores) == SetMax({scores[k] : k \in 1..Len(scores)})

SelInit ==
    /\ n_blocks \in 0..MaxBlocks
    /\ n_variants \in 1..MaxVariants
    /\ idx = 0
    /\ candidate_scores = <<>>
    /\ max_score = 0
    /\ best_match = 0
    /\ best_score = 0
    /\ sel_pc = "loop"
    /\ sel_ret = "none"
    /\ reads = <<>>

SelIdle ==
    /\ n_blocks = 0
    /\ n_variants = 1
    /\ idx = 0
    /\ candidate_scores = <<>>
    /\ max_score = 0
    /\ best_match = 0
    /\ best_score = 0
    /\ sel_pc = "idle"
    /\ sel_ret = "none"
    /\ reads = <<>>

\* lines 170-191: the next block of the window is read and scored against
\* every variant; it becomes the best match if its maximum beats the best
ReadBlock ==
    /\ sel_pc = "loop"
    /\ idx < Min(n_blocks, WINDOW)
    /\ \E scores \in [1..n_variants -> ScoreValues] :
           /\ candidate_scores' = scores
           /\ max_score' = MaxOf(scores)
           /\ reads' = Append(reads, scores)
    /\ idx' = idx + 1
    /\ best_score' = IF beats(max_score', best_score) THEN max_score' ELSE best_score
    /\ best_match' = IF beats(max_score', best_score) THEN idx + 1 ELSE best_match
    /\ UNCHANGED <<n_blocks, n_variants, sel_pc, sel_ret>>

\* lines 171-177, 193-194: reading the block raises, the block is passed over
ReadBlockRaises ==
    /\ sel_pc = "loop"
    /\ idx < Min(n_blocks, WINDOW)
    /\ idx' = idx + 1
    /\ reads' = Append(reads, <<>>)
    /\ UNCHANGED <<n_blocks, n_variants, candidate_scores, max_score, best_match,
                   best_score, sel_pc, sel_ret>>

\* lines 196-198
ReturnNoMatch ==
    /\ sel_pc = "loop"
    /\ idx = Min(n_blocks, WINDOW)
    /\ best_match = 0 \/ too_low(best_score)
    /\ sel_ret' = "no match"
    /\ sel_pc' = "done"
    /\ UNCHANGED <<n_blocks, n_variants, idx, candidate_scores, max_score, best_match,
                   best_score, reads>>

\* line 196 false: on to line 200 with best_match
AddBestMatch ==
    /\ sel_pc = "loop"
    /\ idx = Min(n_blocks, WINDOW)
    /\ ~(best_match = 0 \/ too_low(best_score))
    /\ sel_ret' = "add"
    /\ sel_pc' = "done"
    /\ UNCHANGED <<n_blocks, n_variants, idx, candidate_scores, max_score, best_match,
                   best_score, reads>>

(***************************************************************************)
(* The two generate_artist_permutations, called with one list of names:    *)
(* list_missing_tracks.py lines 16-21 and fuvi_download.py lines 115-121.   *)
(* The names are stripped, as every caller passes them; a list may hold a   *)
(* name twice ("A, A - Title" in the track list of fuvi_download.py).       *)
(***************************************************************************)
MaxArtists == 3

ArtistNames == {"DJ A", "DJ B", "Neon"}

\* list(perms): the elements of a set in one order; Python does not specify it
RECURSIVE SetToSeq(_)
SetToSeq(S) ==
    IF S = {} THEN <<>>
    ELSE LET x == CHOOSE y \in S : TRUE
         IN  <<x>> \o SetToSeq(S \ {x})

\* lines 16-21 of list_missing_tracks.py, the returned list
generate_artist_permutations_list(artists) ==
    IF Len(artists) <= 1 THEN <<JoinComma(artists)>>
    ELSE SetToSeq(generate_artist_permutations(artists))

\* the list l without its i-th element
RemoveAt(l, i) == SubSeq(l, 1, i - 1) \o SubSeq(l, i + 1, Len(l))

\* itertools.permutations(l) as the list it yields: the orderings of the
\* positions in lexicographic order, equal elements kept apart
RECURSIVE PermutationList(_)
RECURSIVE PermutationsFrom(_, _)
PermutationList(l) ==
    IF l = <<>> THEN << <<>> >> ELSE PermutationsFrom(l, 1)

\* the orderings that start with the i-th element or a later one
PermutationsFrom(l, i) ==
    IF i > Len(l) THEN <<>>
    ELSE LET rest == PermutationList(RemoveAt(l, i))
         IN  [k \in 1..Len(rest) |-> <<l[i]>> \o rest[k]] \o PermutationsFrom(l, i + 1)

\* lines 115-121 of fuvi_download.py
fuvi_generate_artist_permutations(artist_list) ==
    IF artist_list = <<>> THEN <<"">>
    ELSE IF Len(artist_list) = 1 THEN <<Strip(artist_list[1])>>
    ELSE LET perms == PermutationList(StripAll(artist_list))
         IN  [k \in 1..Len(perms) |-> JoinComma(perms[k])]

PermInit ==
    /\ perm_artists \in SeqsUpTo(ArtistNames, MaxArtists)
    /\ perm_pc = "call"
    /\ perm_ret = <<>>
    /\ fuvi_perm_pc = "call"
    /\ fuvi_perm_ret = <<>>

PermIdle ==
    /\ perm_artists = <<>>
    /\ perm_pc = "idle"
    /\ perm_ret = <<>>
    /\ fuvi_perm_pc = "idle"
    /\ fuvi_perm_ret = <<>>

\* generate_artist_permutations of list_missing_tracks.py
PermCall ==
    /\ perm_pc = "call"
    /\ perm_ret' = generate_artist_permutations_list(perm_artists)
    /\ perm_pc' = "done"
    /\ UNCHANGED <<perm_artists, fuvi_perm_pc, fuvi_perm_ret>>

\* generate_artist_permutations of fuvi_download.py
FuviPermCall ==
    /\ fuvi_perm_pc = "call"
    /\ fuvi_perm_ret' = fuvi_generate_artist_permutations(perm_artists)
    /\ fuvi_perm_pc' = "done"
    /\ UNCHANGED <<perm_artists, perm_pc, perm_ret>>

(***************************************************************************)
(* extract_artist_and_title called on its own, on track names made of an    *)
(* artist segment, " - ", a title and, or not, a (feat. ...) clause.         *)
(***************************************************************************)
ArtistSegments == {"Neon", "neon", "NEON", "DJ A, Neon", "DJ A & DJ B", "Dj a feat. Neon"}

TitleTexts == {"Song", "Midnight City (Original Mix)"}

FeatClauses ==
    { "", " (feat. Neon)", " (feat. neon)", " (Feat. DJ A & neon)", " (feat DJ B, Neon)",
      " (ft. Neon)" }

TrackStrings ==
    {seg \o " - " \o title \o clause :
         seg \in ArtistSegments, title \in TitleTexts, clause \in FeatClauses}

NoResult == [artists |-> <<>>, title |-> ""]

ExtInit ==
    /\ ext_track \in TrackStrings
    /\ ext_pc = "call"
    /\ ext_ret = NoResult

ExtIdle ==
    /\ ext_track = ""
    /\ ext_pc = "idle"
    /\ ext_ret = NoResult

ExtCall ==
    /\ ext_pc = "call"
    /\ ext_ret' = extract_artist_and_title(ext_track)
    /\ ext_pc' = "done"
    /\ UNCHANGED ext_track

(***************************************************************************)
(* Specifications                                                          *)
(***************************************************************************)
Init == FindInit /\ MixIdle /\ SelIdle /\ PermIdle /\ ExtIdle

Next ==
    \/ NextSource /\ UNCHANGED <<mixVars, selVars, permVars, extVars>>
    \/ SkipClaimed /\ UNCHANGED <<mixVars, selVars, permVars, extVars>>
    \/ ParseLocal /\ UNCHANGED <<mixVars, selVars, permVars, extVars>>
    \/ RejectConflict /\ UNCHANGED <<mixVars, selVars, permVars, extVars>>
    \/ Score /\ UNCHANGED <<mixVars, selVars, permVars, extVars>>
    \/ RejectScores /\ UNCHANGED <<mixVars, selVars, permVars, extVars>>
    \/ Accept /\ UNCHANGED <<mixVars, selVars, permVars, extVars>>
    \/ ScanEnd /\ UNCHANGED <<mixVars, selVars, permVars, extVars>>
    \/ AfterScan /\ UNCHANGED <<mixVars, selVars, permVars, extVars>>
    \/ Return /\ UNCHANGED <<mixVars, selVars, permVars, extVars>>

Spec == Init /\ [][Next]_vars

MixNext == MixCall /\ UNCHANGED <<findVars, selVars, permVars, extVars>>

InitMix == MixInit /\ FindIdle /\ SelIdle /\ PermIdle /\ ExtIdle

SpecMix == InitMix /\ [][MixNext]_vars

SelNext ==
    \/ ReadBlock /\ UNCHANGED <<findVars, mixVars, permVars, extVars>>
    \/ ReadBlockRaises /\ UNCHANGED <<findVars, mixVars, permVars, extVars>>
    \/ ReturnNoMatch /\ UNCHANGED <<findVars, mixVars, permVars, extVars>>
    \/ AddBestMatch /\ UNCHANGED <<findVars, mixVars, permVars, extVars>>

InitSel == SelInit /\ FindIdle /\ MixIdle /\ PermIdle /\ ExtIdle

SpecSel == InitSel /\ [][SelNext]_vars

PermNext ==
    \/ PermCall /\ UNCHANGED <<findVars, mixVars, selVars, extVars>>
    \/ FuviPermCall /\ UNCHANGED <<findVars, mixVars, selVars, extVars>>

InitPerm == PermInit /\ FindIdle /\ MixIdle /\ SelIdle /\ ExtIdle

SpecPerm == InitPerm /\ [][PermNext]_vars

ExtNext == ExtCall /\ UNCHANGED <<findVars, mixVars, selVars, permVars>>

InitExt == ExtInit /\ FindIdle /\ MixIdle /\ SelIdle /\ PermIdle

SpecExt == InitExt /\ [][ExtNext]_vars

(***************************************************************************)
(* Properties of find_matches                                              *)
(***************************************************************************)
Count(seq, x) == Cardinality({k \in 1..Len(seq) : seq[k] = x})

\* the source and target positions of the accepted pairs so far
ClaimedSources == {claims[k][1] : k \in 1..Len(claims)}
ClaimedTargets == {claims[k][2] : k \in 1..Len(claims)}

\* the names of the target entries at the positions I, in catalog order
RECURSIVE TargetsFrom(_, _)
TargetsFrom(j, I) ==
    IF j > Len(local_tracks) THEN <<>>
    ELSE (IF j \in I THEN <<local_tracks[j][1]>> ELSE <<>>) \o TargetsFrom(j + 1, I)

\* no conflict and both scores at the threshold, for every pair of names
EligiblePairs ==
    [sp \in SpotifyNames |-> [loc \in AllNames |->
        /\ ~is_mix_type_conflict(Fields[sp].mix_type, Fields[loc].mix_type)
        /\ \E a \in Fields[sp].artist_norms, b \in Fields[loc].artist_norms :
               ArtistScores[a][b] >= threshold
        /\ TitleScores[Fields[sp].title_normalized][Fields[loc].title_normalized]
               >= threshold]]

Eligible(sp, loc) == EligiblePairs[sp][loc]

\* C1: two distinct source entries that are matched were matched against
\* distinct target entries: no target entry is claimed twice.
NoTargetClaimedTwice ==
    \A a, b \in 1..Len(claims) :
        claims[a][1] # claims[b][1] => claims[a][2] # claims[b][2]

\* two equal source entries are both matched, the second after skipping the
\* target the first one claimed
TwoSourcesTwoTargets ==
    /\ pc = "done"
    /\ Len(spotify_tracks) = 2
    /\ spotify_tracks[1] = spotify_tracks[2]
    /\ Len(claims) = 2
    /\ Eligible(spotify_tracks[2], local_tracks[claims[1][2]][1])

\* C2: when find_matches returns, every entry of the source catalog is in
\* exactly one of matched and missing: counted with multiplicity, the two
\* outputs together hold each source name as often as the catalog does.
EverySourceInOneOutput ==
    pc = "done" =>
        /\ \A t \in SpotifyNames :
               Count(matched, t) + Count(missing, t) = Count(spotify_tracks, t)
        /\ Len(matched) = Cardinality(ClaimedSources)

\* a run that returned one matched and one missing source entry
OneMatchedOneMissing ==
    /\ pc = "done"
    /\ Len(matched) = 1
    /\ Len(missing) = 1

\* C3: when find_matches returns, a target entry is in the unmatched output
\* if and only if no source entry claimed that entry.
UnmatchedIffNeverClaimed ==
    pc = "done" =>
        unmatched_local = TargetsFrom(1, (1..Len(local_tracks)) \ ClaimedTargets)

\* C13: when find_matches returns, len(matched) + len(unmatched_local) is the
\* number of target entries: each match takes exactly one entry out of the
\* unmatched pool.
MatchedPlusUnmatchedIsTargetCount ==
    pc = "done" => Len(matched) + Len(unmatched_local) = Len(local_tracks)

\* the same count when no two target entries bear one name: this one holds
CountHoldsForDistinctNames ==
    pc = "done"
        /\ (\A i, j \in 1..Len(local_tracks) :
                i # j => local_tracks[i][1] # local_tracks[j][1])
        => Len(matched) + Len(unmatched_local) = Len(local_tracks)

\* C4: sources are taken in catalog order, and the target claimed for a
\* matched source is the earliest target entry that no earlier source claimed,
\* has no mix-type conflict with it and clears both thresholds.
FirstFitInCatalogOrder ==
    \A k \in 1..Len(claims) :
        /\ k > 1 => claims[k - 1][1] < claims[k][1]
        /\ \A j \in 1..(claims[k][2] - 1) :
               \/ \E h \in 1..(k - 1) : claims[h][2] = j
               \/ ~Eligible(spotify_tracks[claims[k][1]], local_tracks[j][1])

\* the same with "claimed" read as line 194 reads it, by name: this one holds
FirstFitAmongUnclaimedNames ==
    \A k \in 1..Len(claims) :
        /\ k > 1 => claims[k - 1][1] < claims[k][1]
        /\ Eligible(spotify_tracks[claims[k][1]], local_tracks[claims[k][2]][1])
        /\ \A j \in 1..(claims[k][2] - 1) :
               \/ \E h \in 1..(k - 1) : local_tracks[claims[h][2]][1] = local_tracks[j][1]
               \/ ~Eligible(spotify_tracks[claims[k][1]], local_tracks[j][1])

\* C5: a pair is matched only if its mix types do not conflict and both the
\* artist score and the title score are at least the threshold; a source whose
\* only candidates conflict with it ends in missing.
MatchedOnlyIfNoConflictAndBothScores ==
    /\ \A k \in 1..Len(claims) :
           Eligible(spotify_tracks[claims[k][1]], local_tracks[claims[k][2]][1])
    /\ pc = "done" =>
           \A i \in 1..Len(spotify_tracks) :
               (\A j \in 1..Len(local_tracks) :
                    ~Eligible(spotify_tracks[i], local_tracks[j][1]))
                   => /\ i \notin ClaimedSources
                      /\ spotify_tracks[i] \in {missing[k] : k \in 1..Len(missing)}

\* a remix-tagged source facing only its untagged namesake, both scores 100,
\* ends in missing
RemixSourceGoesMissing ==
    /\ pc = "done"
    /\ spotify_tracks = <<"Artist - Track (Acme Remix)">>
    /\ local_tracks # <<>>
    /\ \A j \in 1..Len(local_tracks) : local_tracks[j][1] = "Artist - Track"
    /\ TitleScores[Fields["Artist - Track (Acme Remix)"].title_normalized]
                  [Fields["Artist - Track"].title_normalized] = 100
    /\ missing = spotify_tracks
    /\ matched = <<>>

(***************************************************************************)
(* Properties of is_mix_type_conflict                                      *)
(***************************************************************************)
\* the lowercased string of every qualifier of the model, '' for None
LowerQ == [q \in Qualifiers |-> IF q = None THEN "" ELSE Lower(q)]

\* the four kinds of qualifier, decided on the lowercased string
KindQ ==
    [q \in Qualifiers |->
        IF LowerQ[q] = "" THEN "blank"
        ELSE IF LowerQ[q] \in NEUTRAL THEN "neutral"
        ELSE IF \/ Contains(LowerQ[q], "remix")
                \/ \E w \in {"edit", "mix", "version"} : Contains(LowerQ[q], w)
             THEN "remix"
        ELSE "other"]

BlankQ(q) == KindQ[q] = "blank"

NeutralQ(q) == KindQ[q] = "neutral"

RemixQ(q) == KindQ[q] = "remix"

OtherQ(q) == KindQ[q] = "other"

\* C7: the answer for (a, b) is the answer for (b, a).
MixConflictSymmetric ==
    mix_pc = "done" => mix_ret = is_mix_type_conflict(mt2, mt1)

\* a blank first qualifier against a neutral second one: no conflict
BlankAgainstNeutralReturned ==
    /\ mix_pc = "done"
    /\ BlankQ(mt1)
    /\ NeutralQ(mt2)
    /\ mix_ret = FALSE

\* C8: a neutral qualifier never conflicts with a neutral or blank one, and
\* two blank qualifiers never conflict.
NeutralNeverConflicts ==
    mix_pc = "done" =>
        /\ NeutralQ(mt1) /\ (NeutralQ(mt2) \/ BlankQ(mt2)) => mix_ret = FALSE
        /\ BlankQ(mt1) /\ BlankQ(mt2) => mix_ret = FALSE

\* two different neutral qualifiers were compared
TwoNeutralsReturned ==
    /\ mix_pc = "done"
    /\ mt1 = "radio edit"
    /\ mt2 = "extended mix"
    /\ mix_ret = FALSE

\* C9: a remix-type qualifier conflicts with every neutral or blank one, in
\* either argument order.
RemixAgainstNeutralConflicts ==
    mix_pc = "done" =>
        /\ RemixQ(mt1) /\ (NeutralQ(mt2) \/ BlankQ(mt2)) => mix_ret = TRUE
        /\ RemixQ(mt2) /\ (NeutralQ(mt1) \/ BlankQ(mt1)) => mix_ret = TRUE

\* a remix-type qualifier was compared with None
RemixAgainstNoneReturned ==
    /\ mix_pc = "done"
    /\ RemixQ(mt1)
    /\ mt2 = None
    /\ mix_ret = TRUE

Scored == {i \in 1..Len(reads) : reads[i] # <<>>}

CandidateScore(i) == MaxOf(reads[i])

\* C6: every block of the window is scored by its maximum over the variants;
\* the selected block holds the greatest score of all, and is the first one
\* in order to hold it; the selection is accepted if and only if that
\* greatest score is at least the threshold.
BestOfWindow ==
    sel_pc = "done" =>
        /\ Len(reads) = Min(n_blocks, WINDOW)
        /\ best_match # 0 =>
               /\ best_match \in Scored
               /\ best_score = CandidateScore(best_match)
               /\ \A i \in Scored : CandidateScore(i) <= best_score
               /\ \A i \in Scored : i < best_match => CandidateScore(i) < best_score
        /\ best_match = 0 => \A i \in Scored : CandidateScore(i) = 0
        /\ sel_ret = "add" <=>
               \E i \in Scored : CandidateScore(i) >= CONFIDENCE_THRESHOLD

\* two blocks tie at a greatest score equal to the threshold, one of them by
\* its second variant: the first is selected and accepted
TieAtThresholdAccepted ==
    /\ sel_pc = "done"
    /\ sel_ret = "add"
    /\ best_score = CONFIDENCE_THRESHOLD
    /\ \E i, j \in Scored :
           /\ i < j
           /\ best_match = i
           /\ CandidateScore(j) = best_score
           /\ Len(reads[j]) = 2 /\ reads[j][1] < reads[j][2]

(***************************************************************************)
(* Properties of generate_artist_permutations                              *)
(***************************************************************************)
\* what is asked of a returned list: for two names or more, one entry per
\* distinct ordering of the list and no entry twice; for fewer, the joined
\* string alone
OnePerDistinctOrdering(artists, ret) ==
    IF Len(artists) >= 2
    THEN /\ {ret[k] : k \in 1..Len(ret)} = {JoinComma(p) : p \in Orderings(artists)}
         /\ \A j, k \in 1..Len(ret) : j # k => ret[j] # ret[k]
    ELSE ret = <<JoinComma(artists)>>

\* C11: each generate_artist_permutations returns one comma-joined string per
\* distinct ordering of a list of two names or more, none repeated when the
\* list holds a name twice, and the joined string alone for a shorter list.
PermutationsOnePerOrdering ==
    /\ perm_pc = "done" => OnePerDistinctOrdering(perm_artists, perm_ret)
    /\ fuvi_perm_pc = "done" => OnePerDistinctOrdering(perm_artists, fuvi_perm_ret)

\* the same of list_missing_tracks.py's function alone: this one holds
LocalPermutationsOnePerOrdering ==
    perm_pc = "done" => OnePerDistinctOrdering(perm_artists, perm_ret)

(***************************************************************************)
(* Properties of extract_artist_and_title                                  *)
(***************************************************************************)
\* how many artists the artist segment of the track gives by itself
SegmentArtistCount(track) ==
    Len(extract_artist_and_title(
            SubSeq(track, 1, FindFrom(track, " - ", 1) - 1) \o " - Title").artists)

\* C12: no name merged from the (feat. ...) clause equals, up to letter case,
\* an entry that comes from the artist segment.
FeatMergeIgnoresCase ==
    ext_pc = "done" =>
        \A i, j \in 1..Len(ext_ret.artists) :
            i <= SegmentArtistCount(ext_track) /\ SegmentArtistCount(ext_track) < j
                => Lower(ext_ret.artists[i]) # Lower(ext_ret.artists[j])

\* the same with names compared as they are written: this one holds
FeatMergeKeepsCase ==
    ext_pc = "done" =>
        \A i, j \in 1..Len(ext_ret.artists) :
            i <= SegmentArtistCount(ext_track) /\ SegmentArtistCount(ext_track) < j
                => ext_ret.artists[i] # ext_ret.artists[j]

====
